---- MODULE Spec2Model ----
(***************************************************************************)
(* Model of the two SMS relay programs of solapi-backend:                  *)
(*   app.py  : POST /sms  (fixed administrator identity, live sender       *)
(*             verification, ALLOW_UNREGISTERED override)                  *)
(*   main.py : POST /send (fixed sender, message sent to request phone)    *)
(* and of the phone-number helpers only_digits / normalize_kor.            *)
(*                                                                         *)
(* Strings are sequences of one-character strings, so that stripping,      *)
(* prefix tests and slicing are computed as the Python code computes them. *)
(* A JSON field that is absent or null is the value None.                  *)
(***************************************************************************)
EXTENDS Naturals, Sequences, FiniteSets

VARIABLES
    program,     \* which program is deployed: "app" (app.py) or "main" (main.py)
    env,         \* the environment the module-level code read at import time
    phase,       \* "idle" (waiting for a request) or "responded"
    req,         \* JSON body of the request being handled
    fetched,     \* outcome of the sender-registry read made for this request
    registered,  \* the set fetch_registered_senders() returned for this request
    calls,       \* outbound vendor calls made while handling this request
    resp,        \* what the handler handed to the HTTP layer
    x,           \* normalizer input
    y,           \* normalize_kor(x)
    yy,          \* normalize_kor(normalize_kor(x))
    applied      \* whether the normalizer has been applied to x

vars == <<program, env, phase, req, fetched, registered, calls, resp, x, y, yy, applied>>

(***************************************************************************)
(* Bounds                                                                  *)
(***************************************************************************)
\* longest normalizer input that is enumerated
MaxLen == 6
\* most records in one sender-registry response
MaxItems == 2

\* characters the enumerated normalizer inputs are made of ("-" is a non-digit)
Alphabet == {"0", "1", "2", "6", "7", "8", "9", "-"}

(***************************************************************************)
(* String helpers (Python str semantics on sequences of characters)        *)
(***************************************************************************)
None == <<"<None>">>

\* `v or ""`
OrEmpty(v) == IF v = None THEN <<>> ELSE v

\* \d of the regular expressions (ASCII digits)
IsDigit(c) == c \in {"0", "1", "2", "3", "4", "5", "6", "7", "8", "9"}

IsSpace(c) == c \in {" ", "\t", "\n"}

RECURSIVE FilterDigits(_)
FilterDigits(s) ==
    IF s = <<>> THEN <<>>
    ELSE IF IsDigit(Head(s)) THEN <<Head(s)>> \o FilterDigits(Tail(s))
    ELSE FilterDigits(Tail(s))

\* str.startswith(prefix)
StartsWith(s, prefix) ==
    /\ Len(s) >= Len(prefix)
    /\ SubSeq(s, 1, Len(prefix)) = prefix

\* s[k:] with k counted from 0
DropFirst(s, k) == IF Len(s) <= k THEN <<>> ELSE SubSeq(s, k + 1, Len(s))

RECURSIVE LStrip(_)
LStrip(s) ==
    IF s = <<>> THEN <<>>
    ELSE IF IsSpace(Head(s)) THEN LStrip(Tail(s))
    ELSE s

RECURSIVE RStrip(_)
RStrip(s) ==
    IF s = <<>> THEN <<>>
    ELSE IF IsSpace(s[Len(s)]) THEN RStrip(SubSeq(s, 1, Len(s) - 1))
    ELSE s

\* str.strip()
Strip(s) == RStrip(LStrip(s))

\* re.fullmatch(r"\d{9,12}", s)
FullMatch9to12(s) ==
    /\ Len(s) >= 9
    /\ Len(s) <= 12
    /\ \A i \in 1..Len(s) : IsDigit(s[i])

(***************************************************************************)
(* app.py: only_digits, normalize_kor                                      *)
(***************************************************************************)
\* DIGITS.sub("", s or "")
only_digits(s) == FilterDigits(OrEmpty(s))

\* the tuple given to rest.startswith(...)
MOBILE_PREFIXES ==
    { <<"1", "0">>, <<"1", "1">>, <<"1", "6">>, <<"1", "7">>, <<"1", "8">>, <<"1", "9">> }

\* a slip that forgets to strip before matching and rewriting
normalize_kor_raw(num) ==
    LET n == OrEmpty(num)
        rest == DropFirst(n, 2)
    IN  IF StartsWith(n, <<"8", "2">>) /\ (\E p \in MOBILE_PREFIXES : StartsWith(rest, p))
        THEN <<"0">> \o rest
        ELSE FilterDigits(n)

\* a slip that strips the country code whenever it is present, whatever follows
normalize_kor_greedy(num) ==
    LET n == only_digits(num)
        rest == DropFirst(n, 2)
    IN  IF StartsWith(n, <<"8", "2">>) THEN rest ELSE n

normalize_kor(num) ==
    LET n == only_digits(num)
        rest == DropFirst(n, 2)
    IN  IF StartsWith(n, <<"8", "2">>) /\ (\E p \in MOBILE_PREFIXES : StartsWith(rest, p))
        THEN <<"0">> \o rest
        ELSE n

(***************************************************************************)
(* Values the environment, the requests and the vendor are drawn from      *)
(***************************************************************************)
\* "01099998888": the administrator number in local form
ADMIN_LOCAL == <<"0", "1", "0", "9", "9", "9", "9", "8", "8", "8", "8">>
\* "+82 10-9999-8888": the same number as the vendor console shows it
ADMIN_INTL ==
    <<"+", "8", "2", " ", "1", "0", "-", "9", "9", "9", "9", "-", "8", "8", "8", "8">>
\* "821099998888": a registry record in country-code form
ADMIN_82 == <<"8", "2", "1", "0", "9", "9", "9", "9", "8", "8", "8", "8">>
\* "123": a SOLAPI_SENDER that is no phone number
SENDER_BAD == <<"1", "2", "3">>
\* "01022223333": a recipient / sender the caller supplies
OTHER_PHONE == <<"0", "1", "0", "2", "2", "2", "2", "3", "3", "3", "3">>
\* "010-1111-2222": a customer phone as typed
CUSTOMER_TYPED == <<"0", "1", "0", "-", "1", "1", "1", "1", "-", "2", "2", "2", "2">>
\* "123": a customer phone of 3 digits
CUSTOMER_SHORT == <<"1", "2", "3">>
\* "010111122223333": a customer phone of 15 digits
CUSTOMER_LONG ==
    <<"0", "1", "0", "1", "1", "1", "1", "2", "2", "2", "2", "3", "3", "3", "3">>
\* "00000000000": the phone main.py answers with a preview when ALLOW_DEV_ECHO is on
DEV_ECHO_PHONE == <<"0", "0", "0", "0", "0", "0", "0", "0", "0", "0", "0">>

SET == <<"s", "e", "t">>

\* app.py refuses to start without key, secret and sender (lines 22-23);
\* main.py starts with whatever is there
Envs ==
    { [program |-> "app", SOLAPI_API_KEY |-> SET, SOLAPI_API_SECRET |-> SET,
       SOLAPI_SENDER |-> s, ALLOW_UNREGISTERED |-> a,
       SOLAPI_SECRET_ONLY |-> FALSE, ALLOW_DEV_ECHO |-> FALSE] :
         s \in {ADMIN_LOCAL, ADMIN_INTL, SENDER_BAD}, a \in BOOLEAN }
    \cup
    { [program |-> "main", SOLAPI_API_KEY |-> k, SOLAPI_API_SECRET |-> sec,
       SOLAPI_SENDER |-> s, ALLOW_UNREGISTERED |-> FALSE,
       SOLAPI_SECRET_ONLY |-> so, ALLOW_DEV_ECHO |-> de] :
         k \in {<<>>, SET}, sec \in {<<>>, SET}, s \in {<<>>, ADMIN_LOCAL},
         so \in BOOLEAN, de \in BOOLEAN }

Bodies ==
    [ site    : {None, <<"a">>, <<"[", "a", "]">>},
      vd      : {None, <<" ">>, <<"d">>},
      vtLabel : {None, <<"t">>},
      name    : {None, <<>>, <<" ">>, <<" ", "n">>},
      phone   : {None, <<"-">>, CUSTOMER_SHORT, CUSTOMER_TYPED, CUSTOMER_LONG,
                 DEV_ECHO_PHONE, ADMIN_LOCAL},
      sp      : {None, OTHER_PHONE},
      sender  : {None, OTHER_PHONE} ]

\* one record of the registry response; shape "other" is an element that is no object
SenderItems ==
    { [shape |-> "dict", phoneNumber |-> ADMIN_LOCAL, status |-> "APPROVED"],
      [shape |-> "dict", phoneNumber |-> ADMIN_82, status |-> "active"],
      [shape |-> "dict", phoneNumber |-> ADMIN_LOCAL, status |-> "PENDING"],
      [shape |-> "dict", phoneNumber |-> OTHER_PHONE, status |-> "APPROVED"],
      [shape |-> "other", phoneNumber |-> None, status |-> "" ] }

ItemLists == UNION { [1..n -> SenderItems] : n \in 0..MaxItems }

\* what requests.get(.../senderid/v1/senders) can do
FetchOutcomes ==
    { [kind |-> k, items |-> <<>>] : k \in {"network_error", "non_json", "bad_shape"} }
    \cup { [kind |-> "json", items |-> l] : l \in ItemLists }

\* what requests.post(send url) can do: raise, or answer with a status and a body
SendOutcomes ==
    { [raised |-> TRUE, error |-> e, status |-> 0, json |-> FALSE] :
        e \in {"timeout", "connection_error"} }
    \cup { [raised |-> FALSE, error |-> "", status |-> st, json |-> j] :
        st \in {200, 400, 500}, j \in BOOLEAN }

NoReq == [site |-> None, vd |-> None, vtLabel |-> None, name |-> None,
          phone |-> None, sp |-> None, sender |-> None]
NoResp == [kind |-> "none", ok |-> FALSE, http |-> 0, error |-> "", status |-> 0]

(***************************************************************************)
(* app.py                                                                  *)
(***************************************************************************)
APPROVED_STATES ==
    {"APPROVED", "ACTIVE", "REGISTERED", "CONFIRMED", "VERIFIED",
     "ALLOW", "ENABLED", "OK", "AVAILABLE"}

\* str.upper() on the status strings that occur
Upper(s) ==
    CASE s = "active" -> "ACTIVE"
      [] s = "approved" -> "APPROVED"
      [] OTHER -> s

\* the numbers one registry record adds (lines 103-109)
ItemNumbers(it) ==
    IF Upper(it.status) \in APPROVED_STATES
    THEN {n \in {only_digits(it.phoneNumber), normalize_kor(it.phoneNumber)} : n # <<>>}
    ELSE {}

\* the numbers collected before the first element that makes the loop raise
RECURSIVE NumbersSoFar(_)
NumbersSoFar(items) ==
    IF items = <<>> \/ Head(items).shape # "dict" THEN {}
    ELSE ItemNumbers(Head(items)) \cup NumbersSoFar(Tail(items))

\* a slip that returns what was collected when the loop raises
fetch_registered_senders_partial(f) ==
    IF f.kind # "json" THEN {} ELSE NumbersSoFar(f.items)

fetch_registered_senders(f) ==
    IF f.kind # "json" THEN {}
    ELSE IF \E i \in 1..Len(f.items) : f.items[i].shape # "dict" THEN {}
    ELSE UNION { ItemNumbers(f.items[i]) : i \in 1..Len(f.items) }

\* how the read went, as the handler's caller would classify it
FetchClass(f) ==
    IF f.kind = "json" /\ (\E i \in 1..Len(f.items) : f.items[i].shape # "dict")
    THEN "bad_shape"
    ELSE f.kind

\* build_admin_text: the five values after the fixed labels
build_admin_text(site, vd, vt_label, name, phone) ==
    LET bracketed == StartsWith(site, <<"[">>) /\ site # <<>> /\ site[Len(site)] = "]"
        site_disp == IF site # <<>> /\ ~bracketed THEN <<"[">> \o site \o <<"]">> ELSE site
        dash(v) == IF v = <<>> THEN <<"-">> ELSE v
    IN  << dash(site_disp), dash(vd), dash(Strip(vt_label)), dash(name), dash(phone) >>

\* a slip that tests the raw phone field instead of its digits
SmsValidate_rawphone(site, vd, name, phone, rawphone, admin_phone) ==
    IF site = <<>> THEN "site"
    ELSE IF vd = <<>> THEN "vd"
    ELSE IF name = <<>> THEN "name"
    ELSE IF OrEmpty(rawphone) = <<>> THEN "phone"
    ELSE IF ~FullMatch9to12(admin_phone) THEN "ENV_SENDER"
    ELSE "ok"

\* lines 177-183: the first failed check, or "ok"
SmsValidate(site, vd, name, phone, rawphone, admin_phone) ==
    IF site = <<>> THEN "site"
    ELSE IF vd = <<>> THEN "vd"
    ELSE IF name = <<>> THEN "name"
    ELSE IF phone = <<>> THEN "phone"
    ELSE IF ~FullMatch9to12(admin_phone) THEN "ENV_SENDER"
    ELSE "ok"

\* a slip that forgets the override
SmsRejects_nooverride(admin_phone, reg, allow) == admin_phone \notin reg

\* line 187
SmsRejects(admin_phone, reg, allow) == (admin_phone \notin reg) /\ ~allow

\* a slip that routes to the recipient the caller supplied
SmsRoute_sp(admin_phone, body) ==
    [to |-> IF body.sp = None THEN admin_phone ELSE only_digits(body.sp),
     from |-> admin_phone]

\* lines 194-203: the route of the one message
SmsRoute(admin_phone, body) == [to |-> admin_phone, from |-> admin_phone]

ReadCall == [op |-> "read", to |-> <<>>, from |-> <<>>, text |-> <<>>, outcome |-> "done"]

SendCall(route, text, s) ==
    [op |-> "send", to |-> route.to, from |-> route.from, text |-> text,
     outcome |-> IF s.raised THEN s.error
                 ELSE IF s.status < 400 THEN "accepted" ELSE "refused"]

\* lines 205-224
SmsResult(s) ==
    IF s.raised
    THEN [kind |-> "json", ok |-> FALSE, http |-> 200, error |-> s.error, status |-> 0]
    ELSE IF s.status \div 100 # 2
    THEN [kind |-> "json", ok |-> FALSE, http |-> 200, error |-> "", status |-> s.status]
    ELSE [kind |-> "json", ok |-> TRUE, http |-> 200, error |-> "", status |-> 0]

Fail(http, error) ==
    [kind |-> "json", ok |-> FALSE, http |-> http, error |-> error, status |-> 0]

Finish(body, f, reg, cs, r) ==
    /\ req' = body
    /\ fetched' = f
    /\ registered' = reg
    /\ calls' = cs
    /\ resp' = r
    /\ phase' = "responded"
    /\ UNCHANGED <<program, env, x, y, yy, applied>>

\* POST /sms
Sms ==
    /\ program = "app"
    /\ phase = "idle"
    /\ \E body \in Bodies :
        LET site == Strip(OrEmpty(body.site))
            vd == Strip(OrEmpty(body.vd))
            vt_label == Strip(OrEmpty(body.vtLabel))
            name == Strip(OrEmpty(body.name))
            phone == only_digits(body.phone)
            admin_phone == normalize_kor(env.SOLAPI_SENDER)
            err == SmsValidate(site, vd, name, phone, body.phone, admin_phone)
        IN  IF err # "ok"
            THEN Finish(body, "none", {}, <<>>, Fail(200, err))
            ELSE \E f \in FetchOutcomes :
                LET reg == fetch_registered_senders(f)
                IN  IF SmsRejects(admin_phone, reg, env.ALLOW_UNREGISTERED)
                    THEN Finish(body, FetchClass(f), reg, <<ReadCall>>,
                                Fail(200, "not_registered"))
                    ELSE \E s \in SendOutcomes :
                        LET text == build_admin_text(site, vd, vt_label, name, phone)
                        IN  Finish(body, FetchClass(f), reg,
                                   <<ReadCall, SendCall(SmsRoute(admin_phone, body), text, s)>>,
                                   SmsResult(s))

(***************************************************************************)
(* main.py                                                                 *)
(***************************************************************************)
\* PHONE_RE.sub("", s or "")
normalize_phone(s) == FilterDigits(OrEmpty(s))

\* build_message: the values after the labels; the time line only when given
build_message(site, vd, vt_label, name, phone) ==
    <<site, vd>> \o (IF vt_label # <<>> THEN <<vt_label>> ELSE <<>>) \o <<name, phone>>

\* lines 81-94: whether send_via_solapi gets as far as the request
HasCredentials(e) ==
    \/ e.SOLAPI_SECRET_ONLY /\ e.SOLAPI_API_SECRET # <<>>
    \/ e.SOLAPI_API_KEY # <<>> /\ e.SOLAPI_API_SECRET # <<>>

\* lines 96-102
SendRoute(to, e) == [to |-> to, from |-> e.SOLAPI_SENDER]

\* lines 104-110 and 135-141; requests.post raising is caught nowhere
SendResult(s) ==
    IF s.raised
    THEN [kind |-> "exception", ok |-> FALSE, http |-> 500, error |-> s.error, status |-> 0]
    ELSE IF s.status < 400
    THEN [kind |-> "json", ok |-> TRUE, http |-> 200, error |-> "", status |-> s.status]
    ELSE [kind |-> "json", ok |-> FALSE, http |-> 502, error |-> "", status |-> s.status]

\* POST /send
Send ==
    /\ program = "main"
    /\ phase = "idle"
    /\ \E body \in Bodies :
        LET stripped == Strip(OrEmpty(body.site))
            site == IF stripped = <<>> THEN <<"S">> ELSE stripped
            vd == Strip(OrEmpty(body.vd))
            vt_label == Strip(OrEmpty(body.vtLabel))
            name == Strip(OrEmpty(body.name))
            phone == normalize_phone(OrEmpty(body.phone))
            msg == build_message(site, vd, vt_label, name, phone)
        IN  IF vd = <<>> \/ name = <<>> \/ phone = <<>>
            THEN Finish(body, "none", {}, <<>>, Fail(400, "required"))
            ELSE IF env.ALLOW_DEV_ECHO /\ phone = DEV_ECHO_PHONE
            THEN Finish(body, "none", {}, <<>>,
                        [kind |-> "json", ok |-> TRUE, http |-> 200,
                         error |-> "dev_echo", status |-> 0])
            ELSE IF env.SOLAPI_SENDER = <<>>
            THEN Finish(body, "none", {}, <<>>, Fail(500, "SOLAPI_SENDER"))
            ELSE IF ~HasCredentials(env)
            THEN Finish(body, "none", {}, <<>>, Fail(502, ""))
            ELSE \E s \in SendOutcomes :
                Finish(body, "none", {}, <<SendCall(SendRoute(phone, env), msg, s)>>,
                       SendResult(s))

(***************************************************************************)
(* The server                                                              *)
(***************************************************************************)
\* the response is out and the request's locals are gone
Complete ==
    /\ phase = "responded"
    /\ phase' = "idle"
    /\ req' = NoReq
    /\ fetched' = "none"
    /\ registered' = {}
    /\ calls' = <<>>
    /\ resp' = NoResp
    /\ UNCHANGED <<program, env, x, y, yy, applied>>

Init ==
    /\ \E e \in Envs :
        /\ program = e.program
        /\ env = e
    /\ phase = "idle"
    /\ req = NoReq
    /\ fetched = "none"
    /\ registered = {}
    /\ calls = <<>>
    /\ resp = NoResp
    /\ x = <<>>
    /\ y = <<>>
    /\ yy = <<>>
    /\ applied = FALSE

Next == Sms \/ Send \/ Complete

Spec == Init /\ [][Next]_vars

(***************************************************************************)
(* The normalizer on its own                                               *)
(***************************************************************************)
InitNorm ==
    /\ program = "app"
    /\ env = [program |-> "app", SOLAPI_API_KEY |-> SET, SOLAPI_API_SECRET |-> SET,
              SOLAPI_SENDER |-> ADMIN_LOCAL, ALLOW_UNREGISTERED |-> FALSE,
              SOLAPI_SECRET_ONLY |-> FALSE, ALLOW_DEV_ECHO |-> FALSE]
    /\ phase = "idle"
    /\ req = NoReq
    /\ fetched = "none"
    /\ registered = {}
    /\ calls = <<>>
    /\ resp = NoResp
    /\ \E n \in 0..MaxLen : x \in [1..n -> Alphabet]
    /\ y = <<>>
    /\ yy = <<>>
    /\ applied = FALSE

\* normalize_kor(x), and normalize_kor of the result
Normalize ==
    /\ ~applied
    /\ y' = normalize_kor(x)
    /\ yy' = normalize_kor(y')
    /\ applied' = TRUE
    /\ UNCHANGED <<program, env, phase, req, fetched, registered, calls, resp, x>>

NextNorm == Normalize

SpecNorm == InitNorm /\ [][NextNorm]_vars

(***************************************************************************)
(* Properties                                                              *)
(***************************************************************************)
Responded == phase = "responded"

Sends == {i \in 1..Len(calls) : calls[i].op = "send"}
Reads == {i \in 1..Len(calls) : calls[i].op = "read"}
NumSends == Cardinality(Sends)
NumReads == Cardinality(Reads)

\* the request fields as the specification's normalizer sees them
ReqName == Strip(OrEmpty(req.name))
ReqDate == Strip(OrEmpty(req.vd))
ReqSite == Strip(OrEmpty(req.site))
ReqPhone == FilterDigits(OrEmpty(req.phone))

\* the configured administrator number, locale-normalized
AdminNumber == normalize_kor(env.SOLAPI_SENDER)

\* a /sms request that got past the field checks of lines 177-183
SmsFieldsValid ==
    /\ ReqSite # <<>>
    /\ ReqDate # <<>>
    /\ ReqName # <<>>
    /\ ReqPhone # <<>>
    /\ FullMatch9to12(AdminNumber)

C2_FixedAdminRoute ==
    (program = "app" /\ Responded)
        => \A i \in Sends : calls[i].to = AdminNumber /\ calls[i].from = AdminNumber

\* a send made for a request that names another recipient and another sender
C2_Witness ==
    /\ program = "app"
    /\ Responded
    /\ env.SOLAPI_SENDER = ADMIN_INTL
    /\ req.sp = OTHER_PHONE
    /\ req.sender = OTHER_PHONE
    /\ req.phone = CUSTOMER_TYPED
    /\ NumSends = 1
    /\ \A i \in Sends : calls[i].to = ADMIN_LOCAL /\ calls[i].from = ADMIN_LOCAL

FetchFailed == fetched \in {"network_error", "non_json", "bad_shape"}

\* C3 as stated: when the registry read fails the approved set is empty and the
\* request still proceeds to a send; it is never rejected because of the failure.
C3_Original ==
    (program = "app" /\ Responded /\ FetchFailed)
        => (registered = {} /\ NumSends = 1 /\ resp.error # "not_registered")

\* C3 amended: when the registry read fails the approved set is empty and nothing
\* is raised; the request proceeds to a send from the administrator number exactly
\* when ALLOW_UNREGISTERED is set, and is otherwise rejected with ok:false and no send.
C3_FetchFailureDegrades ==
    (program = "app" /\ Responded /\ FetchFailed)
        => /\ registered = {}
           /\ resp.kind = "json"
           /\ env.ALLOW_UNREGISTERED
                => (NumSends = 1 /\ \A i \in Sends : calls[i].from = AdminNumber)
           /\ ~env.ALLOW_UNREGISTERED
                => (NumSends = 0 /\ resp.ok = FALSE /\ resp.error = "not_registered")

\* a valid request rejected only because the registry could not be read
C3_Witness ==
    /\ program = "app"
    /\ Responded
    /\ fetched = "network_error"
    /\ SmsFieldsValid
    /\ ~env.ALLOW_UNREGISTERED
    /\ registered = {}
    /\ NumReads = 1
    /\ NumSends = 0
    /\ resp.ok = FALSE

C5_NoEscape ==
    Responded
        => /\ resp.kind = "json"
           /\ \A i \in Sends :
                calls[i].outcome \in {"timeout", "connection_error", "refused"}
                    => resp.ok = FALSE

\* a request that got past validation (and, under /sms, verification), in a
\* deployment that has its sender and credentials configured
PassedChecks ==
    IF program = "app"
    THEN SmsFieldsValid /\ (env.ALLOW_UNREGISTERED \/ AdminNumber \in registered)
    ELSE /\ ReqDate # <<>> /\ ReqName # <<>> /\ ReqPhone # <<>>
         /\ env.SOLAPI_SENDER # <<>>
         /\ HasCredentials(env)

\* C6: a request causes at most one send, exactly one when it passes validation
\* (and verification), and the handler always ends with a response.
C6_ExactlyOneAttempt ==
    Responded
        => /\ NumSends <= 1
           /\ PassedChecks => NumSends = 1
           /\ resp.kind = "json"

\* C7: a customer phone that is not 9 to 12 digits after stripping is rejected
\* with ok:false before any outbound call.
C7_PhoneFormat ==
    (Responded /\ ~FullMatch9to12(ReqPhone))
        => (resp.ok = FALSE /\ calls = <<>>)

\* C8: the "to" of an outbound send is the administrator number, never the
\* customer phone of the request (which only appears in the text).
C8_ToIsNotCustomer ==
    Responded
        => \A i \in Sends : calls[i].to = ReqPhone => calls[i].to = AdminNumber

\* the prefixes the specification enumerates
SpecPrefixes ==
    { <<"1", "0">>, <<"1", "1">>, <<"1", "6">>, <<"1", "7">>, <<"1", "8">>, <<"1", "9">> }

\* s = "82" + p + rest with p one of the prefixes
HasCountryForm(s) == \E p \in SpecPrefixes : StartsWith(s, <<"8", "2">> \o p)

\* C9 as stated: an input of the form "82" + p + rest gives "0" + p + rest, and
\* every other input gives only_digits of it.
C9_Original ==
    applied
        => IF HasCountryForm(x)
           THEN y = <<"0">> \o DropFirst(x, 2)
           ELSE y = only_digits(x)

\* C9 amended: the form is looked for in the digits of the input: with
\* n = only_digits(x), n = "82" + p + rest gives "0" + p + rest, and every other
\* input gives n.
C9_RewriteOnDigits ==
    applied
        => LET n == FilterDigits(x)
           IN  IF HasCountryForm(n)
               THEN y = <<"0">> \o DropFirst(n, 2)
               ELSE y = n

\* "-8210": not of the form as written, of the form once stripped
C9_Witness ==
    /\ applied
    /\ x = <<"-", "8", "2", "1", "0">>
    /\ ~HasCountryForm(x)
    /\ y = <<"0", "1", "0">>

\* C10: normalize_kor(normalize_kor(x)) = normalize_kor(x)
C10_Idempotent == applied => yy = y

\* "828210": a repeated country code, left as it is by both applications
C10_Witness ==
    /\ applied
    /\ x = <<"8", "2", "8", "2", "1", "0">>
    /\ y = x
    /\ yy = x

====
